---- MODULE Spec2Model ----
(***************************************************************************)
(* Model of the OTA connectivity session controller of                     *)
(* application_code/tasks/ota.c: the task vStartOTAUpdateDemoTask, its     *)
(* loop vRunOTAUpdateDemo, the backoff _connectionRetryDelay and the       *)
(* transport's disconnect callback prvNetworkDisconnectCallback, which     *)
(* runs in another context and is interleaved with the task at every step. *)
(* The MQTT library and the OTA agent are external: their outcomes         *)
(* (connect result, agent state, shutdown result, rand()) are drawn        *)
(* nondeterministically.                                                   *)
(***************************************************************************)
EXTENDS Integers, FiniteSets, Sequences, TLC

\* ------------------------------------------------------------ constants
\* OTA_DEMO_CONN_RETRY_BASE_INTERVAL_SECONDS
BaseInterval == 4
\* OTA_DEMO_CONN_RETRY_MAX_INTERVAL_SECONDS
MaxInterval == 360

\* ------------------------------------------------------------ bounds
\* number of sessions IotMqtt_Connect may open in one run
MaxSessions == 2
\* number of consecutive calls of _connectionRetryDelay without a reset
MaxAttempts == 9
\* rand() is drawn from 0..MaxRand; any prefix of 0..RAND_MAX that is at
\* least as long as the largest modulus yields the same residues
MaxRand == 400
\* the sleeps of the suspend poll loop are counted up to MaxPolls
MaxPolls == 1
\* returns of xEventGroupWaitBits are counted up to MaxObservations
MaxObservations == 2
MaxLostSleeps == 2

\* ------------------------------------------------------------ domains
\* the agent states named by _pStateStr
AgentStates ==
    {"Init", "Ready", "RequestingJob", "WaitingForJob", "CreatingFile",
     "RequestingFileBlock", "WaitingForFileBlock", "ClosingFile",
     "Suspended", "ShuttingDown", "Stopped"}

\* the image states OTA_GetImageState can report
ImageStates == {"Unknown", "Testing", "Accepted", "Rejected", "Aborted"}

\* mqttCallbackParams->u.disconnectReason
DisconnectReasons ==
    {"DISCONNECT_CALLED", "BAD_PACKET_RECEIVED", "KEEP_ALIVE_TIMEOUT", "UNKNOWN"}

\* outcomes of OTA_AgentShutdown within its timeout
ShutdownOutcomes == {"stopped", "timeout", "failed"}

NULL == 0

\* the roles sl_Start reports: ROLE_STA, ROLE_AP, ROLE_P2P
Roles == {"STA", "AP", "P2P"}
\* DEFAULT_ROLE
DEFAULT_ROLE == "AP"
\* SIMPLELINK_INIT, SIMPLELINK_ERROR
SIMPLELINK_INIT == "INIT"
SIMPLELINK_ERROR == "ERROR"
EventBits == {SIMPLELINK_INIT, SIMPLELINK_ERROR}
\* PROVISIONING_INACTIVITY_TIMEOUT
PROVISIONING_INACTIVITY_TIMEOUT == 600
\* the configuration calls of ConfigureSimpleLinkToDefaultState after the
\* role switch, in their order (lines 159-208)
ResetSteps ==
    <<"connection_policy", "address_mode", "ipv6_off", "scan_policy",
      "tx_power", "pm_policy", "mdns", "rx_filters", "stop">>

\* no call of App_OTACompleteCallback
NoCall == [event |-> "none", ops |-> <<>>]

Min(a, b) == IF a <= b THEN a ELSE b

RECURSIVE Pow2(_)
Pow2(n) == IF n = 0 THEN 1 ELSE 2 * Pow2(n - 1)

VARIABLES
    pc,               \* position of the controller task
    retryInterval,    \* _retryInterval
    networkConnected, \* _networkConnected
    mqttConnection,   \* _mqttConnection: NULL or the id of a session
    ctxClient,        \* xOTAConnectionCtx.pvControlClient
    slept,            \* retryIntervalwithJitter while the task sleeps it
    sdkUp,            \* IotSdk_Init done and not cleaned up
    mqttUp,           \* IotMqtt_Init done and not cleaned up
    \* transport and engine (external)
    opened,           \* number of sessions IotMqtt_Connect has opened
    open,             \* sessions opened and not yet passed to IotMqtt_Disconnect
    linkUp,           \* the latest session's network connection is alive
    otaState,         \* what OTA_GetAgentState reports
    imageState,       \* what OTA_GetImageState reports
    agentStarted,     \* OTA_AgentInit has been called
    \* history
    ctlOp,            \* last operation the controller task issued
    attempt,          \* calls of _connectionRetryDelay since the last reset
    failsSince,       \* connect failures since the last successful connect
    succeeded,        \* some connect has succeeded
    delayCause,       \* why the current delay is taken
    notified,         \* the callback ran since the last successful connect
    eStateRead,       \* agent state read at the resume test of this connect
    resumeArg,        \* session passed to OTA_Resume in this connect
    initArg,          \* session passed to OTA_AgentInit in this connect
    intervalAtConnect,\* _retryInterval when the connect returned
    shutdownOutcome,  \* outcome of OTA_AgentShutdown
    \* the agent task and its event callback App_OTACompleteCallback
    cbPc,             \* the agent task in App_OTACompleteCallback: idle (not
                      \* in it), spin (in its endless loop), reset (the
                      \* device was reset)
    cbCall,           \* the call of App_OTACompleteCallback made in the step
                      \* just taken, if any: its event and its operations
    handleUsers,      \* contexts that have read or written _mqttConnection
    doubleClose,      \* IotMqtt_Disconnect was called on a closed session
    lastReason,       \* reason of the callback of this session, if any
    exitCause,        \* the test that ended the monitoring loop
    exitConnected,    \* _networkConnected was set when the loop ended
    pollSleeps,       \* sleeps of the suspend poll loop, up to MaxPolls
    lostSleeps        \* sleeps of the monitoring loop completed with the
                      \* connection flag clear, up to MaxLostSleeps

\* vApplicationDaemonTaskStartupHook of main.c
VARIABLES
    hookPc,           \* position of the hook: hook (not run yet), no_system
                      \* (returned, SYSTEM_Init failed), returned (after
                      \* Iot_CreateDetachedThread), ap_task (inside AP_Task)
    started           \* the workflows the hook has started

bootVars == <<hookPc, started>>

\* the provisioning coordinator of ap_mode_task.c
VARIABLES
    apPc,             \* position of AP_Task
    wifiOn,           \* result of WIFI_On
    eventGroup,       \* xSimpleLinkEventGroup: unset, created or null
    eventBits,        \* the bits set in the event group
    uxBits,           \* the bits the last xEventGroupWaitBits returned
    desiredRole,      \* desiredRole
    startRet,         \* what provisioningStart returned
    deviceStarted,    \* the network processor is started
    resetDone,        \* configuration steps of the reset that were performed
    stopIssued,       \* sl_WlanProvisioning(SL_WLAN_PROVISIONING_CMD_STOP) called
    startPending,     \* sl_Start was given the callback and has not called it
    starts,           \* asynchronous device starts issued
    cbFired,          \* calls of SimpleLinkInitCallback
    cbStatus,         \* the role the callback was last called with
    observations,     \* returns of xEventGroupWaitBits, up to MaxObservations
    provStarts,       \* provisioning starts by HandleStrtdEvt, up to MaxObservations
    provTimeout,      \* inactivity timeout of the last provisioning start
    nullUse,          \* the event group was used although it is NULL
    provActive,       \* a provisioning session is running in the device
    initCalled        \* InitSimplelink was called by provisioningStart

apVars == <<apPc, wifiOn, eventGroup, eventBits, uxBits, desiredRole,
            startRet, deviceStarted, resetDone, stopIssued, startPending,
            starts, cbFired, cbStatus, observations, provStarts, provTimeout,
            nullUse, provActive, initCalled>>

\* AP_Task has not run yet; desiredRole is initialized to DEFAULT_ROLE
ApInit ==
    /\ apPc = "wifi_on"
    /\ wifiOn = "unknown"
    /\ eventGroup = "unset"
    /\ eventBits = {}
    /\ uxBits = {}
    /\ desiredRole = DEFAULT_ROLE
    /\ startRet = "none"
    /\ deviceStarted = FALSE
    /\ resetDone = {}
    /\ stopIssued = FALSE
    /\ startPending = FALSE
    /\ starts = 0
    /\ cbFired = 0
    /\ cbStatus = "none"
    /\ observations = 0
    /\ provStarts = 0
    /\ provTimeout = 0
    /\ nullUse = FALSE
    /\ provActive = FALSE
    /\ initCalled = FALSE

ctlVars == <<pc, retryInterval, networkConnected, mqttConnection, ctxClient,
             slept, sdkUp, mqttUp>>
envVars == <<opened, open, linkUp, otaState, imageState, agentStarted>>
connVars == <<notified, eStateRead, resumeArg, initArg, intervalAtConnect>>
histVars == <<ctlOp, attempt, failsSince, succeeded, delayCause,
              shutdownOutcome>>
agentVars == <<cbPc, cbCall>>
useVars == <<handleUsers, doubleClose>>
loopVars == <<lastReason, exitCause, exitConnected, pollSleeps,
              lostSleeps>>
vars == <<ctlVars, envVars, connVars, histVars, agentVars, useVars, loopVars,
          apVars, bootVars>>

Init ==
    /\ pc = "start"
    /\ retryInterval = BaseInterval
    /\ networkConnected = FALSE
    /\ mqttConnection = NULL
    /\ ctxClient = NULL
    /\ slept = 0
    /\ sdkUp = FALSE
    /\ mqttUp = FALSE
    /\ opened = 0
    /\ open = {}
    /\ linkUp = FALSE
    /\ otaState = "Stopped"
    /\ imageState = "Unknown"
    /\ agentStarted = FALSE
    /\ ctlOp = "none"
    /\ attempt = 0
    /\ failsSince = 0
    /\ succeeded = FALSE
    /\ delayCause = "none"
    /\ notified = FALSE
    /\ eStateRead = "none"
    /\ resumeArg = NULL
    /\ initArg = NULL
    /\ intervalAtConnect = 0
    /\ shutdownOutcome = "none"
    /\ cbPc = "idle"
    /\ cbCall = NoCall
    /\ handleUsers = {}
    /\ doubleClose = FALSE
    /\ lastReason = "none"
    /\ exitCause = "none"
    /\ exitConnected = FALSE
    /\ pollSleeps = 0
    /\ lostSleeps = 0
    /\ ApInit
    /\ hookPc = "hook"
    /\ started = {}

\* the device has not been reset by OTA_ActivateNewImage
Running == cbPc # "reset"

\* ------------------------------------------------------------ task start
\* _initializeOtaDemo, called first by vStartOTAUpdateDemoTask
InitializeOtaDemo ==
    /\ Running
    /\ pc = "start"
    /\ \E sdkOk \in BOOLEAN, mqttOk \in BOOLEAN :
          /\ sdkUp' = (sdkOk /\ mqttOk)
          /\ mqttUp' = (sdkOk /\ mqttOk)
          /\ pc' = IF sdkOk /\ mqttOk THEN "connect" ELSE "done"
    /\ ctlOp' = "lib_init"
    /\ UNCHANGED <<retryInterval, networkConnected, mqttConnection, ctxClient,
                   slept, envVars, connVars, attempt, failsSince, succeeded,
                   delayCause, shutdownOutcome>>
    /\ cbCall' = NoCall
    /\ UNCHANGED <<cbPc, handleUsers, doubleClose, lastReason, exitCause, exitConnected, pollSleeps, lostSleeps, apVars, bootVars>>

\* ------------------------------------------------------------ transport
\* prvNetworkDisconnectCallback: logs the reason and clears the flag
prvNetworkDisconnectCallbackKnownReasons(reason) ==
    /\ reason \in DisconnectReasons
    /\ networkConnected' = (networkConnected /\ reason = "UNKNOWN")
prvNetworkDisconnectCallback(reason) ==
    /\ reason \in DisconnectReasons
    /\ networkConnected' = FALSE

\* the transport reports the loss of the latest session's connection; it
\* does so once per session, at any point after IotMqtt_Connect returned
NetworkDisconnect ==
    /\ Running
    /\ linkUp
    /\ \E reason \in DisconnectReasons \ {"DISCONNECT_CALLED"} :
          /\ prvNetworkDisconnectCallback(reason)
          /\ lastReason' = reason
    /\ linkUp' = FALSE
    /\ notified' = TRUE
    /\ UNCHANGED <<pc, retryInterval, mqttConnection, ctxClient, slept, sdkUp,
                   mqttUp, opened, open, otaState, imageState, agentStarted,
                   eStateRead, resumeArg, initArg, intervalAtConnect, histVars>>
    /\ cbCall' = NoCall
    /\ UNCHANGED <<cbPc, handleUsers, doubleClose, exitCause, exitConnected, pollSleeps, lostSleeps, apVars, bootVars>>

\* ------------------------------------------------------------ engine
\* the agent task exists once OTA_AgentInit was called
AgentRuns == Running /\ agentStarted

\* the agent task, once started, moves between its states on its own
\* unless it is held in its callback
AgentStep ==
    /\ AgentRuns
    /\ \E s \in AgentStates \ {otaState} :
          otaState' = s
    /\ UNCHANGED <<ctlVars, opened, open, linkUp, imageState, agentStarted,
                   connVars, histVars>>
    /\ cbPc = "idle"
    /\ cbCall' = NoCall
    /\ UNCHANGED <<cbPc, handleUsers,
                   doubleClose, lastReason, exitCause, exitConnected, pollSleeps, lostSleeps, apVars, bootVars>>

ImageStep ==
    /\ AgentRuns
    /\ \E i \in ImageStates \ {imageState} : imageState' = i
    /\ UNCHANGED <<ctlVars, opened, open, linkUp, otaState, agentStarted,
                   connVars, histVars>>
    /\ cbPc = "idle"
    /\ cbCall' = NoCall
    /\ UNCHANGED <<cbPc, handleUsers, doubleClose, lastReason, exitCause, exitConnected, pollSleeps, lostSleeps, apVars, bootVars>>

\* ------------------------------------------------------------ connect
\* _establishMqttConnection returns EXIT_SUCCESS: IotMqtt_Connect has
\* stored the handle of a new session in _mqttConnection
ConnectOk ==
    /\ Running
    /\ pc = "connect"
    /\ opened < MaxSessions
    /\ opened' = opened + 1
    /\ open' = open \cup {opened + 1}
    /\ mqttConnection' = opened + 1
    /\ linkUp' = TRUE
    /\ pc' = "connected"
    /\ ctlOp' = "connect"
    /\ succeeded' = TRUE
    /\ failsSince' = 0
    /\ notified' = FALSE
    /\ eStateRead' = "none"
    /\ resumeArg' = NULL
    /\ initArg' = NULL
    /\ intervalAtConnect' = retryInterval
    /\ UNCHANGED <<retryInterval, networkConnected, ctxClient, slept, sdkUp,
                   mqttUp, otaState, imageState, agentStarted, attempt,
                   delayCause, shutdownOutcome>>
    /\ handleUsers' = handleUsers \cup {"controller"}
    /\ lastReason' = "none"
    /\ exitCause' = "none"
    /\ exitConnected' = FALSE
    /\ cbCall' = NoCall
    /\ UNCHANGED <<cbPc, doubleClose, pollSleeps, lostSleeps, apVars, bootVars>>

\* where the task goes after the else branch of lines 529-532: to the
\* _connectionRetryDelay of line 535, inside the for loop
AfterConnectFailGivesUp == "cleanup"
AfterConnectFailRetriesAtOnce == "connect"
AfterConnectFail == "delay"

\* _establishMqttConnection returns EXIT_FAILURE: the else branch logs and
\* the loop goes on to _connectionRetryDelay
ConnectFail ==
    /\ Running
    /\ pc = "connect"
    /\ attempt < MaxAttempts
    /\ pc' = AfterConnectFail
    /\ ctlOp' = "connect"
    /\ failsSince' = failsSince + 1
    /\ delayCause' = "failure"
    /\ UNCHANGED <<retryInterval, networkConnected, mqttConnection, ctxClient,
                   slept, sdkUp, mqttUp, envVars, connVars, attempt,
                   succeeded, shutdownOutcome>>
    /\ cbCall' = NoCall
    /\ UNCHANGED <<cbPc, handleUsers, doubleClose, lastReason, exitCause, exitConnected, pollSleeps, lostSleeps, apVars, bootVars>>

\* the value the retry interval is set to after a successful connect
ResetIntervalStale(r) == r
ResetInterval(r) == BaseInterval

\* lines 466-475: connection context, retry interval, connection flag
MarkConnected ==
    /\ Running
    /\ pc = "connected"
    /\ ctxClient' = mqttConnection
    /\ retryInterval' = ResetInterval(retryInterval)
    /\ attempt' = 0
    /\ networkConnected' = TRUE
    /\ pc' = "check_suspended"
    /\ UNCHANGED <<mqttConnection, slept, sdkUp, mqttUp, envVars, connVars,
                   ctlOp, failsSince, succeeded, delayCause, shutdownOutcome>>
    /\ handleUsers' = handleUsers \cup {"controller"}
    /\ cbCall' = NoCall
    /\ UNCHANGED <<cbPc, doubleClose, lastReason, exitCause, exitConnected, pollSleeps, lostSleeps, apVars, bootVars>>

\* the test of line 478 on the state OTA_GetAgentState returned
ShouldResumeUnlessStopped(s) == s # "Stopped"
ShouldResume(s) == s = "Suspended"

\* lines 478-481: read the agent state, OTA_Resume if it is Suspended
CheckSuspended ==
    /\ Running
    /\ pc = "check_suspended"
    /\ eStateRead' = otaState
    /\ IF ShouldResume(otaState)
          THEN /\ resumeArg' = ctxClient
               /\ ctlOp' = "resume"
          ELSE /\ resumeArg' = NULL
               /\ ctlOp' = "get_state"
    /\ pc' = "agent_init"
    /\ intervalAtConnect' = 0
    /\ UNCHANGED <<retryInterval, networkConnected, mqttConnection, ctxClient,
                   slept, sdkUp, mqttUp, envVars, notified, initArg,
                   attempt, failsSince, succeeded, delayCause,
                   shutdownOutcome>>
    /\ cbCall' = NoCall
    /\ UNCHANGED <<cbPc, handleUsers,
                   doubleClose, lastReason, exitCause, exitConnected, pollSleeps, lostSleeps, apVars, bootVars>>

\* lines 484-487: OTA_AgentInit is called on every successful connect
AgentInit ==
    /\ Running
    /\ pc = "agent_init"
    /\ initArg' = ctxClient
    /\ agentStarted' = TRUE
    /\ ctlOp' = "init"
    /\ pc' = "monitor"
    /\ UNCHANGED <<retryInterval, networkConnected, mqttConnection, ctxClient,
                   slept, sdkUp, mqttUp, opened, open, linkUp, otaState,
                   imageState, notified, eStateRead, resumeArg,
                   intervalAtConnect, attempt, failsSince, succeeded,
                   delayCause, shutdownOutcome>>
    /\ cbCall' = NoCall
    /\ UNCHANGED <<cbPc, handleUsers, doubleClose, lastReason, exitCause, exitConnected, pollSleeps, lostSleeps, apVars, bootVars>>

\* ------------------------------------------------------------ monitoring
\* the condition of the while loop of line 492
MonitorContinueIgnoresFlag ==
    /\ otaState # "Stopped"
    /\ imageState # "Aborted"
MonitorContinue ==
    /\ otaState # "Stopped"
    /\ imageState # "Aborted"
    /\ networkConnected

\* which of the three tests of line 492 ends the loop, in their order
ExitCause ==
    IF otaState = "Stopped" THEN "stopped"
    ELSE IF imageState = "Aborted" THEN "aborted"
    ELSE IF ~networkConnected THEN "lost"
    ELSE "none"

\* line 492: the loop condition is evaluated; it overwrites eState, and
\* with it what the resume test had read
MonitorTest ==
    /\ Running
    /\ pc = "monitor"
    /\ pc' = IF MonitorContinue THEN "monitor_sleep" ELSE "branch"
    /\ ctlOp' = "get_state"
    /\ eStateRead' = "none"
    /\ resumeArg' = NULL
    /\ UNCHANGED <<retryInterval, networkConnected, mqttConnection, ctxClient,
                   slept, sdkUp, mqttUp, envVars, notified, initArg,
                   intervalAtConnect, attempt, failsSince, succeeded,
                   delayCause, shutdownOutcome>>
    /\ exitCause' = ExitCause
    /\ exitConnected' = (~MonitorContinue /\ networkConnected)
    /\ cbCall' = NoCall
    /\ UNCHANGED <<cbPc, handleUsers, doubleClose, lastReason, pollSleeps, lostSleeps, apVars, bootVars>>

\* lines 495-498: sleep OTA_DEMO_TASK_DELAY_SECONDS, log the statistics
MonitorSleep ==
    /\ Running
    /\ pc = "monitor_sleep"
    /\ pc' = "monitor"
    /\ ctlOp' = "poll_sleep"
    /\ UNCHANGED <<retryInterval, networkConnected, mqttConnection, ctxClient,
                   slept, sdkUp, mqttUp, envVars, connVars, attempt,
                   failsSince, succeeded, delayCause, shutdownOutcome>>
    /\ lostSleeps' = IF networkConnected THEN lostSleeps
                      ELSE Min(lostSleeps + 1, MaxLostSleeps)
    /\ cbCall' = NoCall
    /\ UNCHANGED <<cbPc, handleUsers, doubleClose, lastReason, exitCause, exitConnected, pollSleeps, apVars, bootVars>>

\* the per-connect history is dropped when the task leaves the session
LeaveSession ==
    /\ lastReason' = "none"
    /\ exitCause' = "none"
    /\ exitConnected' = FALSE
    /\ notified' = FALSE
    /\ eStateRead' = "none"
    /\ resumeArg' = NULL
    /\ initArg' = NULL
    /\ intervalAtConnect' = 0

\* the test of line 503, made after the monitoring loop has ended
BranchSuspendsNever == FALSE
BranchSuspends == networkConnected = FALSE

\* lines 503-506: the flag is clear, OTA_Suspend is called; when it returns
\* an error the poll loop is skipped
SuspendAgent ==
    /\ Running
    /\ pc = "branch"
    /\ BranchSuspends
    /\ ctlOp' = "suspend"
    /\ \E accepted \in BOOLEAN :
          IF accepted
             THEN /\ pc' = "suspend_poll"
                  /\ exitCause' = "none"
                  /\ exitConnected' = FALSE
                  /\ UNCHANGED <<connVars, delayCause, lastReason>>
             ELSE /\ pc' = "delay"
                  /\ delayCause' = "disconnect"
                  /\ LeaveSession
    /\ UNCHANGED <<retryInterval, networkConnected, mqttConnection, ctxClient,
                   slept, sdkUp, mqttUp, envVars, attempt, failsSince,
                   succeeded, shutdownOutcome>>
    /\ pollSleeps' = 0
    /\ cbCall' = NoCall
    /\ UNCHANGED <<cbPc, handleUsers, doubleClose, lostSleeps, apVars, bootVars>>

\* the test that ends the poll loop of line 508
PollDoneWhenStopped(s) == s = "Stopped"
PollDoneAfterSleep(s) == s = "Suspended" /\ pollSleeps > 0
PollDone(s) == s = "Suspended"

\* line 508: the poll loop ends when the agent reports Suspended
SuspendPoll ==
    /\ Running
    /\ pc = "suspend_poll"
    /\ ctlOp' = "get_state"
    /\ IF PollDone(otaState)
          THEN /\ pc' = "delay"
               /\ delayCause' = "disconnect"
               /\ LeaveSession
          ELSE /\ pc' = "suspend_sleep"
               /\ UNCHANGED <<connVars, delayCause, lastReason, exitCause, exitConnected>>
    /\ UNCHANGED <<retryInterval, networkConnected, mqttConnection, ctxClient,
                   slept, sdkUp, mqttUp, envVars, attempt, failsSince,
                   succeeded, shutdownOutcome>>
    /\ cbCall' = NoCall
    /\ UNCHANGED <<cbPc, handleUsers, doubleClose, pollSleeps, lostSleeps, apVars, bootVars>>

\* line 511: sleep OTA_DEMO_TASK_DELAY_SECONDS inside the poll loop
SuspendSleep ==
    /\ Running
    /\ pc = "suspend_sleep"
    /\ pc' = "suspend_poll"
    /\ ctlOp' = "poll_sleep"
    /\ UNCHANGED <<retryInterval, networkConnected, mqttConnection, ctxClient,
                   slept, sdkUp, mqttUp, envVars, connVars, attempt,
                   failsSince, succeeded, delayCause, shutdownOutcome>>
    /\ pollSleeps' = Min(pollSleeps + 1, MaxPolls)
    /\ cbCall' = NoCall
    /\ UNCHANGED <<cbPc, handleUsers, doubleClose, lastReason, exitCause, exitConnected, lostSleeps, apVars, bootVars>>

\* ------------------------------------------------------------ shutdown
\* line 519: the flag is set, OTA_AgentShutdown is called with a timeout of
\* ten seconds and its result is ignored. An agent held in its callback
\* cannot stop; an agent that stops has ended its task
AgentShutdown ==
    /\ Running
    /\ pc = "branch"
    /\ ~BranchSuspends
    /\ \E o \in ShutdownOutcomes :
          /\ o = "stopped" => cbPc = "idle"
          /\ shutdownOutcome' = o
          /\ otaState' = IF o = "stopped" THEN "Stopped" ELSE otaState
          /\ agentStarted' = (agentStarted /\ o # "stopped")
    /\ ctlOp' = "shutdown"
    /\ pc' = "close"
    /\ UNCHANGED <<retryInterval, networkConnected, mqttConnection, ctxClient,
                   slept, sdkUp, mqttUp, opened, open, linkUp, imageState,
                   connVars, attempt, failsSince, succeeded, delayCause>>
    /\ cbCall' = NoCall
    /\ UNCHANGED <<cbPc, handleUsers, doubleClose, lastReason, exitCause, exitConnected, pollSleeps, lostSleeps, apVars, bootVars>>

\* IotMqtt_Disconnect on handle h: the session is closed; if its network
\* connection was still alive the library reports DISCONNECT_CALLED
IotMqtt_Disconnect(h) ==
    /\ open' = open \ {h}
    /\ doubleClose' = (doubleClose \/ h \notin open)
    /\ IF linkUp /\ h = opened
          THEN /\ prvNetworkDisconnectCallback("DISCONNECT_CALLED")
               /\ lastReason' = "DISCONNECT_CALLED"
               /\ linkUp' = FALSE
               /\ notified' = TRUE
          ELSE UNCHANGED <<networkConnected, linkUp, notified, lastReason>>

\* the test of line 521
CloseNeededAfterCleanStop(h) == h # NULL /\ shutdownOutcome = "stopped"
CloseNeeded(h) == h # NULL

\* where the task goes after line 524: break leaves the loop,
\* vRunOTAUpdateDemo returns to vStartOTAUpdateDemoTask
AfterCloseFallThrough == "delay"
AfterClose == "cleanup"

\* lines 521-526: close the session and leave the loop
CloseSession ==
    /\ Running
    /\ pc = "close"
    /\ IF CloseNeeded(mqttConnection)
          THEN /\ IotMqtt_Disconnect(mqttConnection)
               /\ ctlOp' = "disconnect"
          ELSE UNCHANGED <<open, networkConnected, linkUp, notified, ctlOp,
                           doubleClose, lastReason>>
    /\ pc' = AfterClose
    /\ UNCHANGED <<retryInterval, mqttConnection, ctxClient, slept, sdkUp,
                   mqttUp, opened, otaState, imageState, agentStarted,
                   eStateRead, resumeArg, initArg, intervalAtConnect, attempt,
                   failsSince, succeeded, delayCause, shutdownOutcome>>
    /\ handleUsers' = handleUsers \cup {"controller"}
    /\ cbCall' = NoCall
    /\ UNCHANGED <<cbPc, exitCause, exitConnected, pollSleeps, lostSleeps, apVars, bootVars>>

\* lines 573-576: _cleanupOtaDemo calls IotMqtt_Cleanup, the task ends
CleanupOtaDemo ==
    /\ Running
    /\ pc = "cleanup"
    /\ mqttUp' = FALSE
    /\ ctlOp' = "lib_cleanup"
    /\ pc' = "done"
    /\ UNCHANGED <<retryInterval, networkConnected, mqttConnection, ctxClient,
                   slept, sdkUp, envVars, connVars, attempt, failsSince,
                   succeeded, delayCause, shutdownOutcome>>
    /\ cbCall' = NoCall
    /\ UNCHANGED <<cbPc, handleUsers, doubleClose, lastReason, exitCause, exitConnected, pollSleeps, lostSleeps, apVars, bootVars>>

\* ------------------------------------------------------------ backoff
\* lines 196-205: the interval is doubled up to the maximum
DoubledIntervalNoCap(r) == r * 2
DoubledIntervalLateCap(r) ==
    IF r >= MaxInterval THEN MaxInterval ELSE r * 2
DoubledInterval(r) ==
    IF r * 2 >= MaxInterval THEN MaxInterval ELSE r * 2

\* line 208: rand() % _retryInterval, for the value rnd of rand()
JitterInclusive(rnd, interval) == rnd % (interval + 1)
JitterUnreduced(rnd, interval) == rnd
Jitter(rnd, interval) == rnd % interval

\* the jitters line 208 can produce for an interval
JitterValues(interval) == {Jitter(rnd, interval) : rnd \in 0 .. MaxRand}

\* what follows the computation of the delay: _connectionRetryDelay
\* returns void, line 213 sleeps the delay
AfterBackoffAbandons == "cleanup"
AfterBackoff == "sleeping"

\* _connectionRetryDelay up to the call of IotClock_SleepMs
ConnectionRetryDelay ==
    /\ Running
    /\ pc = "delay"
    /\ retryInterval' = DoubledInterval(retryInterval)
    /\ \E jitter \in JitterValues(retryInterval') :
          slept' = retryInterval' + jitter
    /\ attempt' = attempt + 1
    /\ ctlOp' = "backoff_sleep"
    /\ pc' = AfterBackoff
    /\ UNCHANGED <<networkConnected, mqttConnection, ctxClient, sdkUp, mqttUp,
                   envVars, connVars, failsSince, succeeded, delayCause,
                   shutdownOutcome>>
    /\ pollSleeps' = 0
    /\ lostSleeps' = 0
    /\ cbCall' = NoCall
    /\ UNCHANGED <<cbPc, handleUsers, doubleClose, lastReason, exitCause, exitConnected, apVars, bootVars>>

\* IotClock_SleepMs returns, the for loop starts its next iteration
RetryWake ==
    /\ Running
    /\ pc = "sleeping"
    /\ slept' = 0
    /\ pc' = "connect"
    /\ UNCHANGED <<retryInterval, networkConnected, mqttConnection, ctxClient,
                   sdkUp, mqttUp, envVars, connVars, histVars>>
    /\ cbCall' = NoCall
    /\ UNCHANGED <<cbPc, handleUsers, doubleClose, lastReason, exitCause, exitConnected, pollSleeps, lostSleeps, apVars, bootVars>>

\* ------------------------------------------------------------ callback
\* the agent completes a job, and calls App_OTACompleteCallback, while it
\* receives the last block of the file or closes the file
CompletingStates == {"WaitingForFileBlock", "ClosingFile"}

\* the test of line 352
CallbackCloseNeededNever(h) == FALSE
CallbackCloseNeeded(h) == h # NULL

\* the operations App_OTACompleteCallback performs for an event, in their
\* order, with _mqttConnection = h: lines 347-358, 367-372 and 373-388
CallbackOps(event, h) ==
    CASE event = "Activate" ->
            IF CallbackCloseNeeded(h)
               THEN <<"IotMqtt_Disconnect", "OTA_ActivateNewImage">>
               ELSE <<"OTA_ActivateNewImage">>
      [] event = "Fail" -> <<>>
      [] event = "StartTest" -> <<"OTA_SetImageState">>

\* App_OTACompleteCallback(eOTA_JobEvent_Activate), run by the agent task:
\* lines 347-366. It closes the session _mqttConnection names; then
\* OTA_ActivateNewImage either resets the device, which ends every task, or
\* returns, and then the callback spins in for( ; ; ) and never returns to
\* the agent
OtaActivate ==
    /\ AgentRuns
    /\ cbPc = "idle"
    /\ otaState \in CompletingStates
    /\ handleUsers' = handleUsers \cup {"ota_callback"}
    /\ IF CallbackCloseNeeded(mqttConnection)
          THEN IotMqtt_Disconnect(mqttConnection)
          ELSE UNCHANGED <<open, networkConnected, linkUp, notified,
                           doubleClose, lastReason>>
    /\ \E resets \in BOOLEAN : cbPc' = IF resets THEN "reset" ELSE "spin"
    /\ cbCall' = [event |-> "Activate",
                  ops |-> CallbackOps("Activate", mqttConnection)]
    /\ UNCHANGED <<pc, retryInterval, mqttConnection, ctxClient, slept, sdkUp,
                   mqttUp, opened, otaState, imageState, agentStarted,
                   eStateRead, resumeArg, initArg, intervalAtConnect,
                   histVars, exitCause, exitConnected, pollSleeps, lostSleeps, apVars, bootVars>>

\* App_OTACompleteCallback(eOTA_JobEvent_Fail), lines 367-372: the agent
\* reports a job that failed while it completes; the callback logs and
\* returns
OtaJobFail ==
    /\ AgentRuns
    /\ cbPc = "idle"
    /\ otaState \in CompletingStates
    /\ cbCall' = [event |-> "Fail", ops |-> CallbackOps("Fail", mqttConnection)]
    /\ UNCHANGED <<ctlVars, envVars, connVars, histVars, cbPc, useVars,
                   loopVars, apVars, bootVars>>

\* the agent asks for the self test when it has received the job of an
\* image that runs for the first time
SelfTestStates == {"WaitingForJob"}

\* the image state the callback sets, line 382
SelfTestImageStateRejected == "Rejected"
SelfTestImageState == "Accepted"

\* App_OTACompleteCallback(eOTA_JobEvent_StartTest), lines 373-388:
\* OTA_SetImageState(eOTA_ImageState_Accepted), whose error is only logged
OtaSelfTest ==
    /\ AgentRuns
    /\ cbPc = "idle"
    /\ otaState \in SelfTestStates
    /\ \E ok \in BOOLEAN :
          imageState' = IF ok THEN SelfTestImageState ELSE imageState
    /\ cbCall' = [event |-> "StartTest",
                  ops |-> CallbackOps("StartTest", mqttConnection)]
    /\ UNCHANGED <<ctlVars, opened, open, linkUp, otaState, agentStarted,
                   connVars, histVars, cbPc, useVars, loopVars, apVars, bootVars>>

\* ------------------------------------------------------------ provisioning
otaVars == <<ctlVars, envVars, connVars, histVars, agentVars, useVars,
             loopVars>>

\* lines 306-317: WIFI_On, its result is only logged. The network processor
\* it turns on may still run a provisioning session of its own
ApWifiOn ==
    /\ apPc = "wifi_on"
    /\ \E ok \in BOOLEAN : wifiOn' = IF ok THEN "success" ELSE "failure"
    /\ \E active \in BOOLEAN : provActive' = active
    /\ apPc' = "create_group"
    /\ UNCHANGED <<eventGroup, eventBits, uxBits, desiredRole, startRet,
                   deviceStarted, resetDone, stopIssued, startPending, starts,
                   cbFired, cbStatus, observations, provStarts, provTimeout,
                   nullUse, initCalled, otaVars, bootVars>>

\* lines 319-331: xEventGroupCreate; a NULL result is not acted on
ApCreateGroup ==
    /\ apPc = "create_group"
    /\ \E created \in BOOLEAN :
          eventGroup' = IF created THEN "created" ELSE "null"
    /\ apPc' = "start"
    /\ UNCHANGED <<wifiOn, eventBits, uxBits, desiredRole, startRet,
                   deviceStarted, resetDone, stopIssued, startPending, starts,
                   cbFired, cbStatus, observations, provStarts, provTimeout,
                   nullUse, provActive, initCalled, otaVars, bootVars>>

\* the first k configuration calls
StepsDone(k) == {ResetSteps[i] : i \in 1 .. k}

\* ConfigureSimpleLinkToDefaultState for the results of its calls: mode is
\* the result of the first sl_Start, switchFails says that sl_WlanSetMode,
\* sl_Stop or the second sl_Start failed, role2 is the role the second
\* sl_Start reported, failAt the configuration call that failed (0: none).
\* ASSERT_ON_ERROR returns the error of the first call that fails; a role
\* other than AP after the restart is returned as it is, which is not a
\* negative value.
ConfigureSimpleLinkToDefaultState(mode, switchFails, role2, failAt) ==
    LET configured ==
            IF failAt = 0
               THEN [ret |-> "ok", done |-> StepsDone(Len(ResetSteps)),
                     started |-> FALSE]
               ELSE [ret |-> "error", done |-> StepsDone(failAt - 1),
                     started |-> TRUE]
    IN  IF mode = "error"
           THEN [ret |-> "error", done |-> {}, started |-> FALSE]
        ELSE IF mode # "AP"
           THEN IF switchFails
                   THEN [ret |-> "error", done |-> {}, started |-> TRUE]
                ELSE IF role2 # "AP"
                   THEN [ret |-> "role", done |-> {}, started |-> TRUE]
                ELSE configured
        ELSE configured

\* the result of sl_DeviceGet, lines 71-72, as far as line 73 tests it
DeviceGetResult == IF provActive THEN "in_progress" ELSE "other"

\* the test of line 73
AlreadyInProgressNever(ret) == FALSE
AlreadyInProgress(ret) == ret = "in_progress"

\* provisioningStart, lines 59-113, with InitSimplelink, lines 234-249:
\* sl_Start is given the callback only after desiredRole was set, and it
\* fails on a device that is already started
ProvisioningStart ==
    /\ apPc = "start"
    /\ IF AlreadyInProgress(DeviceGetResult)
          THEN /\ stopIssued' = TRUE
               /\ provActive' = FALSE
               /\ startRet' = "in_progress"
               /\ UNCHANGED <<desiredRole, deviceStarted, resetDone,
                              startPending, starts, initCalled>>
          ELSE \E mode \in Roles \cup {"error", "already_started"},
                  switchFails \in BOOLEAN, role2 \in Roles,
                  failAt \in 0 .. Len(ResetSteps), startOk \in BOOLEAN :
                  LET c == ConfigureSimpleLinkToDefaultState(
                               mode, switchFails, role2, failAt)
                      issued == ~c.started /\ startOk
                  IN  /\ resetDone' = c.done
                      /\ stopIssued' = FALSE
                      /\ UNCHANGED provActive
                      /\ IF c.ret = "error"
                            THEN /\ startRet' = "error"
                                 /\ deviceStarted' = c.started
                                 /\ UNCHANGED <<desiredRole, startPending,
                                                starts, initCalled>>
                            ELSE /\ desiredRole' = "AP"
                                 /\ initCalled' = TRUE
                                 /\ startRet' =
                                       IF issued THEN "ok" ELSE "error"
                                 /\ deviceStarted' = (c.started \/ issued)
                                 /\ startPending' = issued
                                 /\ starts' =
                                       IF issued THEN starts + 1 ELSE starts
    /\ apPc' = "wait"
    /\ UNCHANGED <<wifiOn, eventGroup, eventBits, uxBits, cbFired, cbStatus,
                   observations, provStarts, provTimeout, nullUse, otaVars, bootVars>>

\* the bit SimpleLinkInitCallback sets, line 221
CallbackBitAlwaysInit(desired, status) == SIMPLELINK_INIT
CallbackBit(desired, status) ==
    IF desired = status THEN SIMPLELINK_INIT ELSE SIMPLELINK_ERROR

\* SimpleLinkInitCallback, lines 214-232, called by the driver with the
\* role the device started in. xEventGroupSetBits on a NULL event group is
\* undefined: no bit of any event group is set
SimpleLinkInitCallback ==
    /\ startPending
    /\ \E status \in Roles :
          /\ cbStatus' = status
          /\ IF eventGroup = "created"
                THEN /\ eventBits' =
                           eventBits \cup {CallbackBit(desiredRole, status)}
                     /\ UNCHANGED nullUse
                ELSE /\ nullUse' = TRUE
                     /\ UNCHANGED eventBits
    /\ startPending' = FALSE
    /\ cbFired' = cbFired + 1
    /\ UNCHANGED <<apPc, wifiOn, eventGroup, uxBits, desiredRole, startRet,
                   deviceStarted, resetDone, stopIssued, starts, observations,
                   provStarts, provTimeout, provActive, initCalled, otaVars, bootVars>>

\* the bits left in the group when xEventGroupWaitBits returns: xClearOnExit
\* is pdTRUE
BitsAfterWaitNoClear(bits) == bits
BitsAfterWait(bits) == bits \ EventBits

\* xEventGroupWaitBits, lines 338-343, on the created group: blocks until
\* one of the two bits is set, returns the bits and clears them
WaitBits ==
    /\ apPc = "wait"
    /\ eventGroup = "created"
    /\ eventBits \cap EventBits # {}
    /\ uxBits' = eventBits
    /\ eventBits' = BitsAfterWait(eventBits)
    /\ observations' = Min(observations + 1, MaxObservations)
    /\ apPc' = "handle"
    /\ UNCHANGED <<wifiOn, eventGroup, desiredRole, startRet, deviceStarted,
                   resetDone, stopIssued, startPending, starts, cbFired,
                   cbStatus, provStarts, provTimeout, nullUse, provActive,
                   initCalled, otaVars, bootVars>>

\* xEventGroupWaitBits on the NULL group is undefined: the task stops in an
\* assertion or a fault, or the call returns whatever it read as bits
WaitBitsNull ==
    /\ apPc = "wait"
    /\ eventGroup = "null"
    /\ nullUse' = TRUE
    /\ \/ /\ apPc' = "hung"
          /\ UNCHANGED <<uxBits, observations>>
       \/ /\ \E garbage \in (SUBSET EventBits) \ {{}} : uxBits' = garbage
          /\ observations' = Min(observations + 1, MaxObservations)
          /\ apPc' = "handle"
    /\ UNCHANGED <<wifiOn, eventGroup, eventBits, desiredRole, startRet,
                   deviceStarted, resetDone, stopIssued, startPending, starts,
                   cbFired, cbStatus, provStarts, provTimeout, provActive,
                   initCalled, otaVars, bootVars>>

\* lines 344-351: the error bit is ignored, the init bit calls
\* HandleStrtdEvt, lines 251-300, which starts the provisioning
HandleBits ==
    /\ apPc = "handle"
    /\ IF SIMPLELINK_INIT \in uxBits
          THEN /\ provStarts' = Min(provStarts + 1, MaxObservations)
               /\ provTimeout' = PROVISIONING_INACTIVITY_TIMEOUT
               /\ provActive' = TRUE
          ELSE UNCHANGED <<provStarts, provTimeout, provActive>>
    /\ apPc' = "wait"
    /\ UNCHANGED <<wifiOn, eventGroup, eventBits, uxBits, desiredRole,
                   startRet, deviceStarted, resetDone, stopIssued,
                   startPending, starts, cbFired, cbStatus, observations,
                   nullUse, initCalled, otaVars, bootVars>>

ApNext ==
    \/ ApWifiOn
    \/ ApCreateGroup
    \/ ProvisioningStart
    \/ SimpleLinkInitCallback
    \/ WaitBits
    \/ WaitBitsNull
    \/ HandleBits

ApSpec == Init /\ [][ApNext]_vars

\* the steps of AP_Task itself; the scheduler runs the task whenever it is
\* not blocked, the driver's callback is under no such obligation
ApTaskStep ==
    \/ ApWifiOn
    \/ ApCreateGroup
    \/ ProvisioningStart
    \/ WaitBits
    \/ WaitBitsNull
    \/ HandleBits

ApLiveSpec == Init /\ [][ApNext]_vars /\ WF_vars(ApTaskStep)

\* ------------------------------------------------------------ specification
Controller ==
    \/ InitializeOtaDemo
    \/ ConnectOk
    \/ ConnectFail
    \/ MarkConnected
    \/ CheckSuspended
    \/ AgentInit
    \/ MonitorTest
    \/ MonitorSleep
    \/ SuspendAgent
    \/ SuspendPoll
    \/ SuspendSleep
    \/ AgentShutdown
    \/ CloseSession
    \/ CleanupOtaDemo
    \/ ConnectionRetryDelay
    \/ RetryWake

Next ==
    \/ Controller
    \/ NetworkDisconnect
    \/ AgentStep
    \/ ImageStep
    \/ OtaActivate
    \/ OtaJobFail
    \/ OtaSelfTest

Spec == Init /\ [][Next]_vars

\* ------------------------------------------------------------ startup
\* the test of line 165, for the result of WIFI_ConnectAP: the else branch
\* calls AP_Task
StartsCoordinatorAlways(wifiOk) == TRUE
StartsCoordinator(wifiOk) == ~wifiOk

\* vApplicationDaemonTaskStartupHook, main.c lines 152-176: nothing is
\* started when SYSTEM_Init fails; when WIFI_ConnectAP succeeds the
\* controller is created as a detached thread, whose creation can fail and
\* is not checked; otherwise the hook calls AP_Task, which does not return
StartupHook ==
    /\ hookPc = "hook"
    /\ \E sysOk \in BOOLEAN, wifiOk \in BOOLEAN, created \in BOOLEAN :
          IF ~sysOk
             THEN /\ hookPc' = "no_system"
                  /\ started' = {}
             ELSE /\ started' =
                        (IF wifiOk /\ created THEN {"controller"} ELSE {})
                           \cup (IF StartsCoordinator(wifiOk)
                                    THEN {"coordinator"} ELSE {})
                  /\ hookPc' = IF StartsCoordinator(wifiOk)
                                  THEN "ap_task" ELSE "returned"
    /\ UNCHANGED <<otaVars, apVars>>

\* the device from power-up: the hook, then the workflows it has started
BootNext ==
    \/ StartupHook
    \/ "controller" \in started /\ Next
    \/ "coordinator" \in started /\ ApNext

BootSpec == Init /\ [][BootNext]_vars

\* ------------------------------------------------------------ liveness
\* an accepted OTA_Suspend is pending while the controller polls for it
SuspendRequested == pc \in {"suspend_poll", "suspend_sleep"}

\* the agent task of an engine that serves its requests: once it reports
\* Suspended for a pending suspend request it stays Suspended until the
\* controller has seen it
ServingAgentStep ==
    /\ ~(SuspendRequested /\ otaState = "Suspended")
    /\ AgentStep

\* the agent acts on the pending suspend request
AgentSuspends ==
    /\ SuspendRequested
    /\ AgentStep
    /\ otaState' = "Suspended"

\* the controller with rand() returning 0: the length of a sleep has no
\* influence on what the task does after it
PlainController ==
    /\ Controller
    /\ slept' \in {0, retryInterval'}

\* the controller and an engine that serves its requests and does not ask
\* for an activation
LiveNext ==
    \/ PlainController
    \/ NetworkDisconnect
    \/ ServingAgentStep
    \/ ImageStep

\* the controller task is scheduled again and again, and the agent acts on
\* a suspend request that stays pending
LiveSpec ==
    /\ Init
    /\ [][LiveNext]_vars
    /\ WF_vars(PlainController)
    /\ WF_vars(AgentSuspends)

\* ------------------------------------------------------------ typing
TypeOK ==
    /\ pc \in {"start", "connect", "connected", "check_suspended",
               "agent_init", "monitor", "monitor_sleep", "branch",
               "suspend_poll", "suspend_sleep", "close", "cleanup", "delay",
               "sleeping", "done"}
    /\ retryInterval \in BaseInterval .. MaxInterval
    /\ networkConnected \in BOOLEAN
    /\ mqttConnection \in 0 .. MaxSessions
    /\ ctxClient \in 0 .. MaxSessions
    /\ slept \in Nat
    /\ opened \in 0 .. MaxSessions
    /\ open \subseteq 1 .. MaxSessions
    /\ linkUp \in BOOLEAN
    /\ otaState \in AgentStates
    /\ imageState \in ImageStates
    /\ attempt \in 0 .. MaxAttempts
    /\ shutdownOutcome \in ShutdownOutcomes \cup {"none"}
    /\ cbPc \in {"idle", "spin", "reset"}
    /\ cbCall.event \in {"none", "Activate", "Fail", "StartTest"}
    /\ handleUsers \subseteq {"controller", "ota_callback"}
    /\ doubleClose \in BOOLEAN
    /\ lastReason \in DisconnectReasons \cup {"none"}
    /\ exitCause \in {"none", "stopped", "aborted", "lost"}
    /\ exitConnected \in BOOLEAN
    /\ pollSleeps \in 0 .. MaxPolls
    /\ lostSleeps \in 0 .. MaxLostSleeps
    /\ apPc \in {"wifi_on", "create_group", "start", "wait", "handle", "hung"}
    /\ eventGroup \in {"unset", "created", "null"}
    /\ eventBits \subseteq EventBits
    /\ uxBits \subseteq EventBits
    /\ desiredRole \in Roles
    /\ resetDone \subseteq StepsDone(Len(ResetSteps))
    /\ starts \in 0 .. 1
    /\ cbFired \in 0 .. 1
    /\ observations \in 0 .. MaxObservations
    /\ provStarts \in 0 .. MaxObservations
    /\ provTimeout \in {0, PROVISIONING_INACTIVITY_TIMEOUT}
    /\ provActive \in BOOLEAN
    /\ initCalled \in BOOLEAN
    /\ hookPc \in {"hook", "no_system", "returned", "ap_task"}
    /\ started \subseteq {"controller", "coordinator"}

\* ------------------------------------------------------------ properties
\* positions between OTA_AgentInit and the end of the session
AfterInit ==
    {"monitor", "monitor_sleep", "branch", "suspend_poll", "suspend_sleep",
     "close"}

\* positions between line 475 and the end of the session
InSession == {"check_suspended", "agent_init"} \cup AfterInit

\* the shutdown path has closed the session
SessionClosed == shutdownOutcome # "none" /\ pc # "close"

\* C1 as stated: on a successful connect exactly one of OTA_Resume and
\* OTA_AgentInit is called, OTA_Resume iff the state read was Suspended.
C1_ExactlyOneOfResumeInit ==
    pc \in AfterInit =>
        /\ (resumeArg # NULL) # (initArg # NULL)
        /\ (resumeArg # NULL) <=> (eStateRead = "Suspended")

\* C1 amended: on every successful connect OTA_AgentInit is called with the
\* new session, and OTA_Resume is called before it, with the new session,
\* iff the agent state read at that moment is Suspended.
C1_ResumeIffSuspendedInitAlways ==
    /\ pc \in AfterInit => initArg = mqttConnection /\ initArg # NULL
    /\ pc \in AfterInit \cup {"agent_init"} =>
          resumeArg = (IF eStateRead = "Suspended" THEN mqttConnection ELSE NULL)

\* a reconnect after a disconnect round trip that resumed and initialized
C1_Witness ==
    /\ pc = "monitor"
    /\ opened >= 2
    /\ eStateRead = "Suspended"
    /\ resumeArg = mqttConnection
    /\ initArg = mqttConnection

\* C2 as stated: the disconnect path closes the session before the task
\* returns to the connect loop, so at most one session is ever open.
C2_NoSessionLeftOpen ==
    /\ delayCause = "disconnect" => mqttConnection \notin open
    /\ Cardinality(open) <= 1

\* C3 as stated: a notification delivered after the connect returned is
\* still visible as a clear flag when the task tests the flag.
C3_NoNotificationLost ==
    (pc \in {"monitor", "branch"} /\ notified) => networkConnected = FALSE

\* C4: the un-jittered part of the n-th consecutive delay since a reset is
\* min(4 * 2^n, 360).
C4_UnjitteredSequence ==
    pc = "sleeping" =>
        retryInterval = Min(BaseInterval * Pow2(attempt), MaxInterval)

\* the interval stays at the maximum: 8th and 9th delay are both 360
C4_Witness ==
    /\ pc = "sleeping"
    /\ attempt = 9
    /\ retryInterval = MaxInterval

\* C5 as stated: the first connect failure after a success yields the
\* un-jittered delay 8.
C5_FirstFailureAfterSuccessIs8 ==
    (pc = "sleeping" /\ succeeded /\ delayCause = "failure" /\ failsSince = 1)
        => retryInterval = 2 * BaseInterval

\* C5 amended: after a success the next delay, which is the one slept after
\* the disconnect that ended the session, has the un-jittered part 8, and
\* the first connect failure after the success has 16.
C5_FirstFailureAfterSuccessIs16 ==
    /\ (pc = "sleeping" /\ succeeded /\ delayCause = "disconnect")
          => retryInterval = 2 * BaseInterval
    /\ (pc = "sleeping" /\ succeeded /\ delayCause = "failure"
            /\ failsSince = 1)
          => retryInterval = 4 * BaseInterval

\* the first failure after a success, being slept
C5_Witness ==
    /\ pc = "sleeping"
    /\ succeeded
    /\ delayCause = "failure"
    /\ failsSince = 1
    /\ retryInterval = 16

C7_JitterClosedInterval ==
    /\ pc = "delay" =>
          JitterValues(DoubledInterval(retryInterval))
              = 0 .. DoubledInterval(retryInterval)
    /\ pc = "sleeping" => slept - retryInterval \in 0 .. retryInterval

\* C7 amended: the slept delay is doubled + jitter with the possible
\* jitters being exactly 0 .. doubled - 1.
C7_JitterHalfOpenInterval ==
    /\ pc = "delay" =>
          JitterValues(DoubledInterval(retryInterval))
              = 0 .. (DoubledInterval(retryInterval) - 1)
    /\ pc = "sleeping" => slept - retryInterval \in 0 .. (retryInterval - 1)

\* the largest jitter of a delay below the maximum
C7_Witness ==
    /\ pc = "sleeping"
    /\ retryInterval = 64
    /\ slept = 127

\* C8: the retry interval never exceeds 360, and from the reset after a
\* successful connect to the end of the session it is 4.
C8_IntervalBoundedAndReset ==
    /\ retryInterval <= MaxInterval
    /\ pc \in InSession => retryInterval = BaseInterval

\* a reset from the maximum
C8_Witness ==
    /\ pc = "check_suspended"
    /\ intervalAtConnect = MaxInterval
    /\ retryInterval = BaseInterval

\* C9: once the shutdown path is through, the session is closed whatever
\* OTA_AgentShutdown reported.
C9_ClosedAfterShutdown ==
    SessionClosed => (mqttConnection # NULL /\ mqttConnection \notin open)

\* the session closed after a shutdown that timed out
C9_Witness ==
    /\ SessionClosed
    /\ shutdownOutcome = "timeout"
    /\ mqttConnection \notin open

C11_ShutdownOnlyWhenStopped ==
    [][(pc = "branch" /\ pc' = "close") =>
          (otaState = "Stopped" /\ networkConnected)]_vars

\* C11 amended: the controller requests shutdown only after its monitoring
\* loop ended on the engine reporting Stopped or on the image state being
\* Aborted, and only while the disconnect flag still says connected.
C11_ShutdownOnlyAfterStoppedOrAborted ==
    [][(pc = "branch" /\ pc' = "close") =>
          (exitCause \in {"stopped", "aborted"} /\ networkConnected)]_vars

\* shutdown was requested for an aborted image on an engine that is not
\* Stopped
C11_Witness ==
    /\ pc = "close"
    /\ exitCause = "aborted"
    /\ shutdownOutcome = "timeout"
    /\ otaState \notin {"Stopped", "Suspended"}

\* C12 as stated: IotMqtt_Disconnect is never called twice on the same
\* session handle between two connects, whatever the interleaving of the
\* controller task with App_OTACompleteCallback.
C12_ClosedAtMostOnce == ~doubleClose

\* C13 as stated: only the controller task reads, writes or operates on
\* _mqttConnection.
C13_HandleUsedByControllerOnly == handleUsers \subseteq {"controller"}

\* C14 as stated: whenever the controller is about to call the connect,
\* the disconnect flag says connected.
C14_ConnectedAtEveryAttempt == pc = "connect" => networkConnected

\* C15: whatever the reason, a run of prvNetworkDisconnectCallback clears
\* the disconnect flag and leaves the retry interval, the session handle,
\* the connection context and the engine as they are; and the flag is
\* cleared in no step other than a run of the callback.
C15_CallbackClearsFlagOnly ==
    [][/\ (lastReason' # lastReason /\ lastReason' \in DisconnectReasons) =>
             /\ networkConnected' = FALSE
             /\ UNCHANGED <<retryInterval, mqttConnection, ctxClient,
                            otaState, imageState, agentStarted>>
       /\ (networkConnected /\ ~networkConnected') =>
             (lastReason' # lastReason /\ lastReason' \in DisconnectReasons)
      ]_vars

\* the callback has run with the reason UNKNOWN during the monitoring
C15_Witness ==
    /\ lastReason = "UNKNOWN"
    /\ pc = "monitor_sleep"
    /\ networkConnected = FALSE
    /\ retryInterval = BaseInterval
    /\ mqttConnection \in open

\* C16: when the disconnect flag is clear while the controller is in the
\* monitoring loop, the controller requests the suspend, and with an engine
\* that reports Suspended after an accepted request the poll loop ends and
\* the controller is back at the connect call.
C16_DisconnectLeadsToReconnect ==
    /\ ((pc \in {"monitor", "monitor_sleep"} /\ ~networkConnected)
            ~> (ctlOp = "suspend"))
    /\ (SuspendRequested ~> (pc = "connect" /\ delayCause = "disconnect"))

\* the controller is back at the connect call after a suspend that polled
C16_Witness ==
    /\ pc = "connect"
    /\ delayCause = "disconnect"
    /\ otaState = "Suspended"
    /\ opened >= 1

\* C17: when the agent already reports Suspended at the first test of the
\* poll loop, the loop is left without a poll sleep; and the controller
\* leaves the loop in the same state however many poll sleeps it took: at
\* the retry delay, with the flag clear, the interval at its base value and
\* the handle and the connection context untouched.
C17_SuspendPollIdempotent ==
    /\ [][(pc = "suspend_poll" /\ otaState = "Suspended" /\ pc' # pc) =>
             /\ pc' = "delay"
             /\ delayCause' = "disconnect"
             /\ pollSleeps' = pollSleeps
             /\ ctlOp = "suspend" => pollSleeps' = 0
             /\ UNCHANGED <<retryInterval, networkConnected, mqttConnection,
                            ctxClient, slept, otaState>>]_vars
    /\ [](pc = "delay" /\ delayCause = "disconnect" =>
             /\ retryInterval = BaseInterval
             /\ networkConnected = FALSE
             /\ mqttConnection = opened
             /\ ctxClient = mqttConnection
             /\ slept = 0)

\* the poll loop was left at its first test
C17_Witness ==
    /\ pc = "delay"
    /\ delayCause = "disconnect"
    /\ ctlOp = "get_state"
    /\ pollSleeps = 0
    /\ otaState = "Suspended"

\* C18: a failed connect takes the controller to the retry delay and from
\* there back to the connect call, however many connects have failed
\* before; it never takes it out of the loop or to the shutdown path.
C18_FailureAlwaysRetried ==
    /\ [][(pc = "connect" /\ pc' \notin {"connect", "connected"}) =>
             (pc' = "delay" /\ delayCause' = "failure")]_vars
    /\ [](delayCause = "failure" /\ pc \in {"delay", "sleeping"} =>
             shutdownOutcome = "none")
    /\ ((pc = "delay" /\ delayCause = "failure") ~> (pc = "connect"))

\* back at the connect call after MaxAttempts failed connects in a row
C18_Witness ==
    /\ pc = "connect"
    /\ failsSince = MaxAttempts
    /\ attempt = MaxAttempts
    /\ ~succeeded

C20_ExactlyOneRoleEventObserved ==
    starts > 0 =>
        /\ apPc = "handle" => (Cardinality(uxBits) = 1 /\ eventBits = {})
        /\ observations <= cbFired
        /\ (apPc = "wait" /\ cbFired > observations) => eventBits # {}
        /\ apPc # "hung"

\* ------------------------------------------------------------ provisioning claims
\* the driver reports a role through the callback in this step
RoleReported == cbFired' = cbFired + 1

\* C21: when the asynchronous start for the access-point role is followed by
\* the driver reporting that role, the init bit is set, and the coordinator
\* eventually starts the provisioning, once for that event and with the
\* inactivity timeout of 600 seconds.
C21_RoleConfirmedStartsProvisioningOnce ==
    /\ [][(RoleReported /\ cbStatus' = desiredRole) =>
              SIMPLELINK_INIT \in eventBits']_vars
    /\ [](provStarts <= (IF cbStatus = desiredRole THEN cbFired ELSE 0))
    /\ (cbFired = 1 /\ cbStatus = desiredRole) ~>
          (provStarts = 1 /\ provTimeout = 600)

\* C22: when the driver reports another role than the requested one the
\* error bit is set, the coordinator goes back to waiting without starting
\* the provisioning and without another start attempt; the provisioning is
\* never started unless the driver confirmed the role.
C22_MismatchNeverStartsProvisioning ==
    /\ [][(RoleReported /\ cbStatus' # desiredRole) =>
              /\ SIMPLELINK_ERROR \in eventBits'
              /\ SIMPLELINK_INIT \notin eventBits']_vars
    /\ [](provStarts > 0 => (cbFired > 0 /\ cbStatus = desiredRole))
    /\ [](starts <= 1)

\* C23: provisioningStart on a device whose provisioning is already running
\* stops the provisioning, returns the in-progress code, and neither resets
\* the radio nor starts the device; desiredRole is left as it was.
C23_InProgressStopsAndReturns ==
    [][(apPc = "start" /\ apPc' = "wait" /\ provActive) =>
          /\ stopIssued'
          /\ startRet' = "in_progress"
          /\ UNCHANGED <<resetDone, deviceStarted, startPending, starts,
                         initCalled, desiredRole>>]_vars

\* provisioningStart has returned the in-progress code
C23_Witness ==
    /\ apPc = "wait"
    /\ startRet = "in_progress"
    /\ stopIssued

\* the configuration calls the claim names
NamedResets == {"connection_policy", "address_mode", "rx_filters"}

\* C24: whenever provisioningStart goes on to InitSimplelink, the policy,
\* address-mode and filter resets were performed before, for every outcome
\* of the role switch inside the reset.
C24_ResetBeforeInit ==
    initCalled => NamedResets \subseteq resetDone

\* ------------------------------------------------------------ callback claims
\* C25: on the activation event the callback disconnects the session, when
\* _mqttConnection holds a handle, before it calls OTA_ActivateNewImage and
\* never after it; when OTA_ActivateNewImage returns, the callback never
\* returns to the agent.
C25_DisconnectBeforeActivation ==
    /\ [][(cbPc = "idle" /\ cbPc' # "idle") =>
              /\ cbCall'.event = "Activate"
              /\ cbCall'.ops =
                    IF mqttConnection # NULL
                       THEN <<"IotMqtt_Disconnect", "OTA_ActivateNewImage">>
                       ELSE <<"OTA_ActivateNewImage">>
              /\ mqttConnection # NULL => mqttConnection \notin open']_vars
    /\ [][cbPc = "spin" =>
              /\ cbPc' = "spin"
              /\ otaState' = otaState
              /\ cbCall'.event = "none"]_vars

\* OTA_ActivateNewImage has returned after the disconnect of the session
C25_Witness ==
    /\ cbPc = "spin"
    /\ cbCall.ops = <<"IotMqtt_Disconnect", "OTA_ActivateNewImage">>
    /\ mqttConnection \notin open

\* C26: on the job-failed event the callback performs no operation and
\* changes no state of the controller, the transport or the agent; on the
\* self-test event its only operation is accepting the image.
C26_OtherEventsOnlyAcceptImage ==
    [][/\ cbCall'.event = "Fail" =>
             /\ cbCall'.ops = <<>>
             /\ UNCHANGED <<ctlVars, envVars, connVars, histVars, cbPc,
                            useVars, loopVars>>
       /\ cbCall'.event = "StartTest" =>
             /\ cbCall'.ops = <<"OTA_SetImageState">>
             /\ imageState' \in {imageState, "Accepted"}
             /\ UNCHANGED <<ctlVars, opened, open, linkUp, otaState,
                            agentStarted, connVars, histVars, cbPc, useVars,
                            loopVars>>]_vars

\* the self test has accepted an image while the session is up
C26_Witness ==
    /\ cbCall.event = "StartTest"
    /\ imageState = "Accepted"
    /\ linkUp

\* ------------------------------------------------------------ suspend claims
\* the controller is between the branch of line 503, taken with the flag
\* clear, and the end of the poll loop of line 508
Suspending ==
    \/ pc = "branch" /\ BranchSuspends
    \/ pc \in {"suspend_poll", "suspend_sleep"}

\* C27 as stated: the controller leaves the suspend branch for the retry
\* delay only in a step that reads the agent state Suspended, also when
\* OTA_Suspend returned an error.
C27_LeavesSuspendingOnlyWhenSuspended ==
    [][(Suspending /\ pc' = "delay") => otaState = "Suspended"]_vars

\* C27 amended: the controller leaves the suspend branch for the retry delay
\* only in a step of the poll loop that reads the agent state Suspended, or
\* directly from OTA_Suspend when that call returned an error.
C27_LeavesSuspendingWhenSuspendedOrRefused ==
    [][(Suspending /\ pc' = "delay") =>
          \/ pc = "suspend_poll" /\ ctlOp' = "get_state"
                /\ otaState = "Suspended"
          \/ pc = "branch" /\ ctlOp' = "suspend"]_vars

\* the poll loop has just read Suspended and the controller is on its way
\* to the retry delay
C27_Witness ==
    /\ pc = "delay"
    /\ ctlOp = "get_state"
    /\ delayCause = "disconnect"
    /\ otaState = "Suspended"

\* ------------------------------------------------------------ retry claims
\* C28: every connection attempt but the first one of the task follows a
\* slept backoff delay; the delay is slept after a failed connect and after
\* the suspend that follows a disconnect, with the un-jittered part 8 after
\* a disconnect and 16 after a connect failure that directly follows.
C28_DelayBeforeEveryReconnect ==
    /\ [][(pc = "connect" /\ ctlOp' = "connect") =>
              ctlOp = (IF attempt = 0 THEN "lib_init" ELSE "backoff_sleep")]_vars
    /\ [][(pc = "suspend_poll" /\ pc' \notin {"suspend_poll", "suspend_sleep"})
              => pc' = "delay"]_vars
    /\ [][(pc = "delay" /\ pc' # "delay") =>
              /\ pc' = "sleeping"
              /\ slept' >= retryInterval'
              /\ delayCause = "disconnect" => retryInterval' = 2 * BaseInterval
              /\ (delayCause = "failure" /\ succeeded /\ failsSince = 1)
                    => retryInterval' = 4 * BaseInterval]_vars

\* the delay after a disconnect was slept and the reconnect is next
C28_Witness ==
    /\ pc = "connect"
    /\ ctlOp = "backoff_sleep"
    /\ delayCause = "disconnect"
    /\ retryInterval = 8

\* ------------------------------------------------------------ monitoring claims
\* the callback has cleared the flag while the task is in the loop of
\* line 492
LostInMonitoring ==
    /\ pc \in {"monitor", "monitor_sleep"}
    /\ ~networkConnected

\* C29: once the connection flag is clear while the controller is in the
\* monitoring loop, the controller completes at most one more sleep of the
\* loop, leaves the loop, and calls OTA_Suspend.
C29_SuspendWithinOneSleep ==
    /\ [](lostSleeps <= 1)
    /\ [][(pc = "monitor" /\ ~networkConnected /\ pc' # "monitor")
              => pc' = "branch"]_vars
    /\ [][(pc = "branch" /\ ~networkConnected /\ pc' # "branch")
              => ctlOp' = "suspend"]_vars
    /\ LostInMonitoring ~> (ctlOp = "suspend" /\ lostSleeps <= 1)

\* OTA_Suspend was called after the one sleep the loss fell into
C29_Witness ==
    /\ ctlOp = "suspend"
    /\ lostSleeps = 1

\* C30: when the monitoring loop ended on the agent state Stopped or the
\* image state Aborted with the connection flag set, the controller takes
\* the shutdown path and does not call OTA_Suspend, also when the
\* disconnect callback runs between the test of line 492 and the test of
\* line 503.
C30_BranchMatchesExitCondition ==
    [][(/\ pc = "branch"
        /\ pc' # "branch"
        /\ exitCause \in {"stopped", "aborted"}
        /\ exitConnected)
          => (pc' = "close" /\ ctlOp' = "shutdown")]_vars

\* C31: when the connection flag is clear at the test of line 503 the
\* controller calls OTA_Suspend and neither calls OTA_AgentShutdown nor
\* leaves the connect loop, whatever state the agent reports; the shutdown
\* path is taken only with the flag set.
C31_LostFlagTakesSuspendPath ==
    [][(pc = "branch" /\ pc' # "branch") =>
          IF networkConnected
             THEN ctlOp' = "shutdown" /\ pc' = "close"
             ELSE /\ ctlOp' = "suspend"
                  /\ pc' \in {"suspend_poll", "delay"}
                  /\ shutdownOutcome' = shutdownOutcome]_vars

\* OTA_Suspend was called although the monitoring loop had ended on the
\* agent state Stopped
C31_Witness ==
    /\ pc = "delay"
    /\ ctlOp = "suspend"
    /\ otaState = "Stopped"
    /\ ~networkConnected
    /\ shutdownOutcome = "none"

\* line 213: retryIntervalwithJitter * 1000 is computed in unsigned int, 32
\* bits wide; the largest number of seconds whose milliseconds fit is
\* (2^32 - 1) \div 1000
MaxSleepSeconds == 4294967

\* C32: the retry interval is always within 4 .. 360; where the jitter is
\* computed it is at least 8, so rand() % _retryInterval never divides by
\* zero, and the slept delay in milliseconds fits 32 bits.
C32_IntervalInRangeNoOverflow ==
    /\ retryInterval \in BaseInterval .. MaxInterval
    /\ pc = "delay" => DoubledInterval(retryInterval) >= 2 * BaseInterval
    /\ pc = "sleeping" =>
          /\ retryInterval >= 2 * BaseInterval
          /\ slept <= MaxSleepSeconds

\* the shortest interval with its largest jitter is being slept
C32_Witness ==
    /\ pc = "sleeping"
    /\ retryInterval = 2 * BaseInterval
    /\ slept = 4 * BaseInterval - 1

\* ------------------------------------------------------------ coordinator claims
\* C33: whenever AP_Task is in the unbounded wait on the event group it has
\* created, an asynchronous device start was issued whose callback has not
\* run yet or whose bit has not been read yet; also after provisioningStart
\* returned the in-progress code or an error.
C33_WaitOnlyForPendingStart ==
    (apPc = "wait" /\ eventGroup = "created") =>
        (startPending \/ eventBits \cap EventBits # {})

\* C34: the event group is used only after it was created: when
\* xEventGroupCreate fails, AP_Task issues no device start and never waits
\* on the group, and the callback never sets a bit in a group that does not
\* exist.
C34_GroupUsedOnlyIfCreated ==
    /\ ~nullUse
    /\ eventGroup = "null" =>
          /\ starts = 0
          /\ ~startPending
          /\ apPc \notin {"wait", "handle", "hung"}

\* the role InitSimplelink is called with, line 105
RequestedRole == "AP"

\* C35: desiredRole holds the requested role before the asynchronous start
\* is issued and is not written between the start and its callback, so the
\* callback compares the reported role with the role of the current start.
C35_CallbackComparesRequestedRole ==
    /\ [](startPending => desiredRole = RequestedRole)
    /\ [][startPending => desiredRole' = desiredRole]_vars
    /\ [][(RoleReported /\ eventGroup = "created") =>
              /\ SIMPLELINK_INIT \in eventBits' <=> cbStatus' = RequestedRole
              /\ SIMPLELINK_ERROR \in eventBits' <=> cbStatus' # RequestedRole]_vars

\* the callback has reported another role than the requested one
C35_Witness ==
    /\ cbFired = 1
    /\ cbStatus = "STA"
    /\ desiredRole = RequestedRole
    /\ eventBits = {SIMPLELINK_ERROR}

\* ------------------------------------------------------------ startup claims
\* the controller or the coordinator takes a step
ControllerActs == pc' # pc
CoordinatorActs == apPc' # apPc

\* C36 as stated: after startup both the coordinator and the controller
\* are running; the start of neither depends on the other.
C36_BothWorkflowsStarted ==
    hookPc # "hook" => started = {"controller", "coordinator"}

\* C36 amended: the startup hook starts at most one of the two workflows:
\* the controller, as a thread of its own, only when SYSTEM_Init and
\* WIFI_ConnectAP succeeded, the coordinator, inside the hook, exactly when
\* SYSTEM_Init succeeded and WIFI_ConnectAP failed; a workflow that was
\* not started never takes a step.
C36_AtMostOneWorkflowStarted ==
    /\ [](Cardinality(started) <= 1)
    /\ []("coordinator" \in started <=> hookPc = "ap_task")
    /\ []("controller" \in started => hookPc = "returned")
    /\ [][ControllerActs => "controller" \in started]_vars
    /\ [][CoordinatorActs => "coordinator" \in started]_vars

\* the coordinator waits for the driver while the controller was never
\* started
C36_Witness ==
    /\ hookPc = "ap_task"
    /\ apPc = "wait"
    /\ startPending
    /\ pc = "start"

\* C37: the connect loop is entered only with the common SDK and the MQTT
\* library initialised; when IotMqtt_Init fails the SDK is cleaned up and
\* the loop is not entered; and when the task has ended, every library
\* that was initialised has been cleaned up.
C37_LibrariesPaired ==
    /\ pc \notin {"start", "done"} => (sdkUp /\ mqttUp)
    /\ (pc = "done" /\ ctlOp = "lib_init") => (~sdkUp /\ ~mqttUp)
    /\ (pc = "done" /\ ctlOp = "lib_cleanup") => (~sdkUp /\ ~mqttUp)

====
